---------------------------- MODULE Spec2Model ----------------------------
(***************************************************************************)
(* A model of the linkable ring-signature engine of PKS-LSAG: the key      *)
(* image, the ring constructor, the ring verifier and the linkability      *)
(* comparator (server/crypto.ts, here src/unnamed/part_001), the in-memory *)
(* store (MemStorage) and the request handlers of server/routes.ts.        *)
(*                                                                         *)
(* Strings.  A JavaScript string is a sequence of tokens.  A token is a    *)
(* record [k, n, a, b]:                                                    *)
(*   k = "ch"   one character, n its code unit                             *)
(*   k = "hex"  the 64 hex characters of sha256(a)                         *)
(*   k = "b64"  the 44 base64 characters of sha256(a)                      *)
(*   k = "sig"  the base64 RSA-SHA256 signature of a under private key b   *)
(*   k = "rnd"  the 64 hex characters of the n-th outcome of randomBytes   *)
(*   k = "undefined"  the JavaScript value undefined (never inside a       *)
(*                    string: only as the one-token value UndefinedValue)  *)
(* sha256 and the RSA signature are free constructors: two digests are     *)
(* equal exactly when their inputs are equal strings (collision-free), and *)
(* string concatenation is \o, so that "a" + "bp" = "ab" + "p" as in JS.   *)
(***************************************************************************)
EXTENDS Integers, Sequences, FiniteSets, TLC

VARIABLES
    cur,         \* harness: the last call of a core function, with its result
    job,         \* harness: the signing jobs (inputs of generateLSAGSignature)
    sig,         \* harness: what generateLSAGSignature did for each job
    groups,      \* MemStorage.groups: id -> LSAGGroup
    signatures,  \* MemStorage.signatures: keyImage -> LSAGSignature
    resp,        \* server: the last request with the response it got
    tutorial,    \* client: the state of SignatureTamperingTutorial
    page         \* client: the state of the basic-signatures page

vars == <<cur, job, sig, groups, signatures, resp, tutorial, page>>

----------------------------------------------------------------------------
(* Bounds of the model *)

\* the largest group
MaxMembers == 2

\* the longest message the basic-signatures page is taken to
MaxMessageLength == 12

\* the most requests of the basic-signatures page in flight at a time
MaxInFlight == 1

\* the most signatures the store holds
MaxSignatures == 2

----------------------------------------------------------------------------
(* Strings *)

Ch(c) == [k |-> "ch", n |-> c, a |-> <<>>, b |-> <<>>]

Str(codes) == [i \in 1..Len(codes) |-> Ch(codes[i])]

EmptyString == <<>>

UndefinedValue == <<[k |-> "undefined", n |-> 0, a |-> <<>>, b |-> <<>>]>>

\* String(undefined), what `"" + undefined` appends: the text "undefined"
UndefinedText == Str(<<117, 110, 100, 101, 102, 105, 110, 101, 100>>)

HexDigestLength == 64
Base64DigestLength == 44
RsaSignatureLength == 344
RandomScalarLength == 64

TokenLength(t) ==
    CASE t.k = "ch"  -> 1
      [] t.k = "hex" -> HexDigestLength
      [] t.k = "b64" -> Base64DigestLength
      [] t.k = "sig" -> RsaSignatureLength
      [] t.k = "rnd" -> RandomScalarLength
      [] OTHER       -> 0

RECURSIVE StrLength(_)
\* s.length
StrLength(s) == IF s = <<>> THEN 0 ELSE TokenLength(Head(s)) + StrLength(Tail(s))

\* crypto.createHash('sha256').update(s).digest('hex')
HexDigest(s) == <<[k |-> "hex", n |-> 0, a |-> s, b |-> <<>>]>>

\* crypto.createHash('sha256').update(s).digest('base64')
Base64Digest(s) == <<[k |-> "b64", n |-> 0, a |-> s, b |-> <<>>]>>

\* crypto.randomBytes(32).toString('hex'), r the outcome drawn
generateRandomScalar(r) == <<[k |-> "rnd", n |-> r, a |-> <<>>, b |-> <<>>]>>

\* !x for a string or undefined
Falsy(x) == x = UndefinedValue \/ x = EmptyString

\* array[i] of JavaScript (0-based; undefined outside the array)
At(array, i) == IF (i + 1) \in DOMAIN array THEN array[i + 1] ELSE UndefinedValue

\* operand of string concatenation: undefined becomes the text "undefined"
ToStr(x) == IF x = UndefinedValue THEN UndefinedText ELSE x

RECURSIVE JsonEscape(_)
\* the characters of a string inside JSON.stringify's quotes
JsonEscape(s) ==
    IF s = <<>> THEN <<>>
    ELSE LET t == Head(s)
             e == IF t.k = "ch" /\ t.n = 34 THEN Str(<<92, 34>>)
                  ELSE IF t.k = "ch" /\ t.n = 92 THEN Str(<<92, 92>>)
                  ELSE IF t.k = "ch" /\ t.n = 10 THEN Str(<<92, 110>>)
                  ELSE <<t>>
         IN e \o JsonEscape(Tail(s))

RECURSIVE JsonItems(_)
JsonItems(strings) ==
    IF strings = <<>> THEN <<>>
    ELSE Str(<<34>>) \o JsonEscape(Head(strings)) \o Str(<<34>>)
         \o (IF Tail(strings) = <<>> THEN <<>> ELSE Str(<<44>>))
         \o JsonItems(Tail(strings))

\* JSON.stringify(array of strings)
JsonStringify(strings) == Str(<<91>>) \o JsonItems(strings) \o Str(<<93>>)

----------------------------------------------------------------------------
(* Keys.  Key k is the pair (PrivateKeyOf(k), PublicKeyOf(k)); any other   *)
(* string is no private key and makes sign.sign throw.                     *)

KeyIds == 1..3

\* "bp", "p", "k\n": public key 1 ends like public key 2, and key 3 holds a
\* character JSON escapes
PublicKeyOf(k) ==
    CASE k = 1 -> Str(<<98, 112>>)
      [] k = 2 -> Str(<<112>>)
      [] OTHER -> Str(<<107, 10>>)

PrivateKeyOf(k) == Str(<<115, 48 + k>>)

MalformedPrivateKey == Str(<<122>>)

KeyPairs == {[publicKey |-> PublicKeyOf(k), privateKey |-> PrivateKeyOf(k)] : k \in KeyIds}

\* mutant: any string is taken for a key, signing never fails
IsPrivateKey_acceptsAnything(privateKey) == TRUE

IsPrivateKey(privateKey) == \E kp \in KeyPairs : kp.privateKey = privateKey

\* sign.update(data); sign.sign(privateKey, 'base64')
RsaSign(data, privateKey) == <<[k |-> "sig", n |-> 0, a |-> data, b |-> privateKey]>>

----------------------------------------------------------------------------
(* Data model *)

NoId == "<undefined>"

\* member number k of the sample rosters, holding key ((k - 1) % 3) + 1
GroupMember(k) == [id |-> ToString(k), publicKey |-> PublicKeyOf(((k - 1) % 3) + 1)]

LSAGGroup(id, name, members) == [id |-> id, name |-> name, members |-> members]

LSAGSignature(ringSignature, challenge, keyImage, message, groupId) ==
    [ringSignature |-> ringSignature, challenge |-> challenge,
     keyImage |-> keyImage, message |-> message, groupId |-> groupId]

NoSignature == LSAGSignature(<<>>, <<>>, <<>>, <<>>, NoId)

\* group.members.map(m => m.publicKey)
PublicKeysOf(group) == [i \in 1..Len(group.members) |-> group.members[i].publicKey]

----------------------------------------------------------------------------
(* The core *)

\* mutant: the key image as a tag of the key pair alone, the message left out
createKeyImage_ignoresMessage(message, privateKey, publicKey) ==
    HexDigest(HexDigest(publicKey) \o privateKey)

\* mutant: the two keys swapped
createKeyImage_keysSwapped(message, privateKey, publicKey) ==
    HexDigest(HexDigest(message \o privateKey) \o publicKey)

createKeyImage(message, privateKey, publicKey) ==
    LET hash == HexDigest(message \o publicKey)
    IN HexDigest(hash \o privateKey)

\* the errors of generateLSAGSignature's catch block
MissingIdError ==
    "Failed to generate LSAG signature: Error: Group must have an ID to generate signature"
SignFailedError == "Failed to generate LSAG signature: sign"

Returned(value) == [ok |-> TRUE, value |-> value, error |-> ""]
Thrown(error) == [ok |-> FALSE, value |-> NoSignature, error |-> error]

\* mutant: every slot is signed with the private key
RingEntry_signsEverySlot(message, privateKey, signerIndex, randomValues, i, challenge) ==
    RsaSign(message \o challenge, privateKey)

\* mutant: the signer's slot signs its random scalar too
RingEntry_signerMixesScalar(message, privateKey, signerIndex, randomValues, i, challenge) ==
    IF i = signerIndex
    THEN RsaSign(message \o At(randomValues, i) \o challenge, privateKey)
    ELSE Base64Digest(message \o At(randomValues, i) \o challenge)

\* slot i of the ring, computed from the chain value before the slot
RingEntry(message, privateKey, signerIndex, randomValues, i, challenge) ==
    IF i = signerIndex
    THEN RsaSign(message \o challenge, privateKey)
    ELSE Base64Digest(message \o At(randomValues, i) \o challenge)

\* mutant: the chain absorbs the member's public key but not the entry
NextChallenge_skipsEntry(challenge, entry, memberPubKey) ==
    HexDigest(challenge \o memberPubKey)

\* the chain value after slot i was absorbed
NextChallenge(challenge, entry, memberPubKey) ==
    HexDigest(challenge \o entry \o memberPubKey)

RECURSIVE RingLoop(_, _, _, _, _, _, _, _)
\* the for loop of generateLSAGSignature from index i on; iterations counts
\* the passes through the loop body that were begun
RingLoop(message, privateKey, group, signerIndex, randomValues, i, challenge, ringSignature) ==
    IF ~(i < Len(group.members))
    THEN [thrown |-> FALSE, challenge |-> challenge, ringSignature |-> ringSignature,
          iterations |-> i]
    ELSE IF i = signerIndex /\ ~IsPrivateKey(privateKey)
    THEN [thrown |-> TRUE, challenge |-> challenge, ringSignature |-> ringSignature,
          iterations |-> i + 1]
    ELSE LET entry == RingEntry(message, privateKey, signerIndex, randomValues, i, challenge)
         IN RingLoop(message, privateKey, group, signerIndex, randomValues, i + 1,
                     NextChallenge(challenge, entry, group.members[i + 1].publicKey),
                     [ringSignature EXCEPT ![i + 1] = entry])

\* the seed of the chain
InitialChallenge(message, group, randomValues) ==
    HexDigest(message \o JsonStringify(PublicKeysOf(group)) \o ToStr(At(randomValues, 0)))

\* the number of passes generateLSAGSignature makes through its loop
RingIterations(message, privateKey, group, signerIndex, randomValues) ==
    RingLoop(message, privateKey, group, signerIndex, randomValues, 0,
             InitialChallenge(message, group, randomValues),
             [i \in 1..Len(group.members) |-> EmptyString]).iterations

\* mutant: the ring array allocated one slot too long
generateLSAGSignature_extraSlot(message, privateKey, signerPublicKey, group, signerIndex, randomValues) ==
    LET keyImage == createKeyImage(message, privateKey, signerPublicKey)
        ring == RingLoop(message, privateKey, group, signerIndex, randomValues, 0,
                         InitialChallenge(message, group, randomValues),
                         [i \in 1..(Len(group.members) + 1) |-> EmptyString])
    IN IF ring.thrown
       THEN Thrown(SignFailedError)
       ELSE IF group.id = NoId \/ group.id = ""
       THEN Thrown(MissingIdError)
       ELSE Returned(LSAGSignature(ring.ringSignature, ring.challenge, keyImage,
                                   message, group.id))

\* mutant: the group's id is not looked at
generateLSAGSignature_idUnchecked(message, privateKey, signerPublicKey, group, signerIndex, randomValues) ==
    LET keyImage == createKeyImage(message, privateKey, signerPublicKey)
        ring == RingLoop(message, privateKey, group, signerIndex, randomValues, 0,
                         InitialChallenge(message, group, randomValues),
                         [i \in 1..Len(group.members) |-> EmptyString])
    IN IF ring.thrown
       THEN Thrown(SignFailedError)
       ELSE Returned(LSAGSignature(ring.ringSignature, ring.challenge, keyImage,
                                   message, group.id))

\* mutant: the ring array ends at the signer's slot
generateLSAGSignature_ringUpToSigner(message, privateKey, signerPublicKey, group, signerIndex, randomValues) ==
    LET keyImage == createKeyImage(message, privateKey, signerPublicKey)
        ring == RingLoop(message, privateKey, group, signerIndex, randomValues, 0,
                         InitialChallenge(message, group, randomValues),
                         [i \in 1..(signerIndex + 1) |-> EmptyString])
    IN IF ring.thrown
       THEN Thrown(SignFailedError)
       ELSE IF group.id = NoId \/ group.id = ""
       THEN Thrown(MissingIdError)
       ELSE Returned(LSAGSignature(ring.ringSignature, ring.challenge, keyImage,
                                   message, group.id))

\* randomValues: the scalars generateRandomScalar() returned, one per member
generateLSAGSignature(message, privateKey, signerPublicKey, group, signerIndex, randomValues) ==
    LET keyImage == createKeyImage(message, privateKey, signerPublicKey)
        ring == RingLoop(message, privateKey, group, signerIndex, randomValues, 0,
                         InitialChallenge(message, group, randomValues),
                         [i \in 1..Len(group.members) |-> EmptyString])
    IN IF ring.thrown
       THEN Thrown(SignFailedError)
       ELSE IF group.id = NoId \/ group.id = ""
       THEN Thrown(MissingIdError)
       ELSE Returned(LSAGSignature(ring.ringSignature, ring.challenge, keyImage,
                                   message, group.id))

MinEntryLength == 10

\* mutant: <= for <, an entry of exactly 10 characters is rejected
EntryWellFormed_offByOne(ringSignaturePart) ==
    ~(Falsy(ringSignaturePart) \/ StrLength(ringSignaturePart) <= MinEntryLength)

\* the well-formedness test of one ring entry
EntryWellFormed(ringSignaturePart) ==
    ~(Falsy(ringSignaturePart) \/ StrLength(ringSignaturePart) < MinEntryLength)

RECURSIVE VerifyLoop_boundsChecked(_, _, _, _)
\* mutant: reading past the end of the ring raises a range error
VerifyLoop_boundsChecked(signature, group, i, challenge) ==
    IF ~(i < Len(group.members))
    THEN [validRing |-> TRUE, challenge |-> challenge, examined |-> i, thrown |-> FALSE]
    ELSE IF ~(i < Len(signature.ringSignature))
    THEN [validRing |-> TRUE, challenge |-> challenge, examined |-> i + 1,
          thrown |-> TRUE]
    ELSE LET memberPubKey == group.members[i + 1].publicKey
             ringSignaturePart == At(signature.ringSignature, i)
         IN IF ~EntryWellFormed(ringSignaturePart)
            THEN [validRing |-> FALSE, challenge |-> challenge, examined |-> i + 1,
                  thrown |-> FALSE]
            ELSE VerifyLoop_boundsChecked(signature, group, i + 1,
                            NextChallenge(challenge, ringSignaturePart, memberPubKey))

RECURSIVE VerifyLoop_noBreak(_, _, _, _)
\* mutant: the loop goes on after an entry failed, the break is missing
VerifyLoop_noBreak(signature, group, i, challenge) ==
    IF ~(i < Len(group.members))
    THEN [validRing |-> TRUE, challenge |-> challenge, examined |-> i, thrown |-> FALSE]
    ELSE LET memberPubKey == group.members[i + 1].publicKey
             ringSignaturePart == At(signature.ringSignature, i)
             rest == VerifyLoop_noBreak(signature, group, i + 1,
                            NextChallenge(challenge, ToStr(ringSignaturePart), memberPubKey))
         IN IF ~EntryWellFormed(ringSignaturePart)
            THEN [rest EXCEPT !.validRing = FALSE]
            ELSE rest

RECURSIVE VerifyLoop(_, _, _, _)
\* the for loop of verifyLSAGSignature from index i on: examined counts the
\* entries read; nothing in the loop throws (an array read past the end is
\* undefined), so the catch block is never entered
VerifyLoop(signature, group, i, challenge) ==
    IF ~(i < Len(group.members))
    THEN [validRing |-> TRUE, challenge |-> challenge, examined |-> i, thrown |-> FALSE]
    ELSE LET memberPubKey == group.members[i + 1].publicKey
             ringSignaturePart == At(signature.ringSignature, i)
         IN IF ~EntryWellFormed(ringSignaturePart)
            THEN [validRing |-> FALSE, challenge |-> challenge, examined |-> i + 1,
                  thrown |-> FALSE]
            ELSE VerifyLoop(signature, group, i + 1,
                            NextChallenge(challenge, ringSignaturePart, memberPubKey))

\* mutant: the ring must close, the replayed chain is compared with the
\* stored challenge
verifyLSAGSignature_closesRing(signature, group) ==
    LET replay == VerifyLoop(signature, group, 0, signature.challenge)
    IN replay.validRing /\ replay.challenge = signature.challenge

\* mutant: the key image is checked too, a signature without one is invalid
verifyLSAGSignature_needsKeyImage(signature, group) ==
    VerifyLoop(signature, group, 0, signature.challenge).validRing
        /\ ~Falsy(signature.keyImage)

\* mutant: every entry of the ring is checked, also those past the group
verifyLSAGSignature_checksWholeRing(signature, group) ==
    /\ VerifyLoop(signature, group, 0, signature.challenge).validRing
    /\ \A i \in DOMAIN signature.ringSignature :
           EntryWellFormed(signature.ringSignature[i])

verifyLSAGSignature(signature, group) ==
    VerifyLoop(signature, group, 0, signature.challenge).validRing

\* mutant: linked only within one group
areLSAGSignaturesLinked_sameGroup(sig1, sig2) ==
    sig1.keyImage = sig2.keyImage /\ sig1.groupId = sig2.groupId

areLSAGSignaturesLinked(sig1, sig2) == sig1.keyImage = sig2.keyImage

----------------------------------------------------------------------------
(* Idle values of the variables a specification does not use *)

NoCall == [op |-> "none"]
NoJobs == <<>>
NoResults == <<>>
NoGroups == [id \in {} |-> id]
NoSignatures == [id \in {} |-> id]
NoRequest == [op |-> "none", status |-> 0]

HarnessIdle == job = NoJobs /\ sig = NoResults
ServerIdle == groups = NoGroups /\ signatures = NoSignatures /\ resp = NoRequest

\* the client components are not mounted
ClientIdle == tutorial = [mounted |-> FALSE] /\ page = [mounted |-> FALSE]

----------------------------------------------------------------------------
(* SpecVerify: verifyLSAGSignature applied to arbitrary signature records  *)
(* (what POST /api/lsag/verify accepts: any array of strings) and groups.  *)

\* "xxxxxxxxx" (9), "xxxxxxxxxx" (10), "xxxxxxxxxy" (10)
Nine == Str(<<120, 120, 120, 120, 120, 120, 120, 120, 120>>)
Ten == Nine \o Str(<<120>>)
TenOther == Nine \o Str(<<121>>)

VerifyEntries == {EmptyString, Nine, Ten, TenOther, Base64Digest(Str(<<97>>))}

RECURSIVE SeqsUpTo(_, _)
\* the sequences over S of length 0..n
SeqsUpTo(S, n) ==
    IF n = 0 THEN {<<>>}
    ELSE LET shorter == SeqsUpTo(S, n - 1)
         IN shorter \cup {Append(q, x) : q \in {r \in shorter : Len(r) = n - 1}, x \in S}

\* the other fields of a signature record, as an honest signer would fill
\* them and as a forger might
VerifyFlavours ==
    {[challenge |-> HexDigest(Str(<<97>>)),
      keyImage |-> createKeyImage(Str(<<97>>), PrivateKeyOf(1), PublicKeyOf(1)),
      message |-> Str(<<97>>), groupId |-> "g1"],
     [challenge |-> Str(<<120>>), keyImage |-> EmptyString,
      message |-> Str(<<97, 98>>), groupId |-> "g2"]}

VerifySignatures ==
    {LSAGSignature(ring, f.challenge, f.keyImage, f.message, f.groupId) :
        ring \in SeqsUpTo(VerifyEntries, MaxMembers), f \in VerifyFlavours}

Roster(n, shift) == [i \in 1..n |-> GroupMember(i + shift)]

VerifyGroups ==
    {LSAGGroup("g1", "ring", Roster(n, 0)) : n \in 0..MaxMembers}
    \cup {LSAGGroup("g2", "other", Roster(MaxMembers, 1))}

CallVerifyRing(signature, group) ==
    /\ cur' = [op |-> "verify", signature |-> signature, group |-> group,
               ret |-> verifyLSAGSignature(signature, group),
               thrown |-> VerifyLoop(signature, group, 0, signature.challenge).thrown,
               examined |-> VerifyLoop(signature, group, 0, signature.challenge).examined]
    /\ UNCHANGED <<job, sig, groups, signatures, resp, tutorial, page>>

InitVerify == cur = NoCall /\ HarnessIdle /\ ServerIdle /\ ClientIdle

NextVerify == \E signature \in VerifySignatures, group \in VerifyGroups :
                  CallVerifyRing(signature, group)

SpecVerify == InitVerify /\ [][NextVerify]_vars

\* C1: verifyRing(signature, group) returns true if and only if every index
\* i with 0 <= i < group.members.length has signature.ringEntries[i] present
\* with length >= 10; otherwise it returns false.
C1_VerifyIffAllEntriesWellFormed ==
    cur.op = "verify" =>
        LET ring == cur.signature.ringSignature
            n == Len(cur.group.members)
        IN /\ cur.ret \in BOOLEAN
           /\ cur.ret = TRUE <=>
                 \A i \in 0..(n - 1) :
                     /\ i < Len(ring)
                     /\ ring[i + 1] # EmptyString
                     /\ StrLength(ring[i + 1]) >= 10

\* a ring of MaxMembers entries, one of them truncated to 9 characters and
\* every other one well-formed, was rejected
C1_Witness ==
    /\ cur.op = "verify"
    /\ Len(cur.group.members) = MaxMembers
    /\ Len(cur.signature.ringSignature) = MaxMembers
    /\ cur.signature.ringSignature[MaxMembers] = Nine
    /\ \A i \in 1..(MaxMembers - 1) : StrLength(cur.signature.ringSignature[i]) >= 10
    /\ cur.ret = FALSE

\* the presence/length>=10 pattern of a ring over the indices 0..n-1
EntryPattern(ring, n) ==
    [i \in 0..(n - 1) |-> i < Len(ring) /\ ring[i + 1] # EmptyString
                          /\ StrLength(ring[i + 1]) >= 10]

Max(x, y) == IF x > y THEN x ELSE y

C21_MismatchNeverThrows ==
    cur.op = "verify" =>
        /\ ~cur.thrown
        /\ cur.ret \in BOOLEAN
        /\ Len(cur.group.members) > Len(cur.signature.ringSignature) => cur.ret = FALSE

\* a ring one entry short of the group, its entries well-formed, was
\* answered false
C21_Witness ==
    /\ cur.op = "verify"
    /\ Len(cur.group.members) = MaxMembers
    /\ Len(cur.signature.ringSignature) = MaxMembers - 1
    /\ \A i \in DOMAIN cur.signature.ringSignature :
           StrLength(cur.signature.ringSignature[i]) >= 10
    /\ ~cur.thrown
    /\ cur.ret = FALSE

\* C22: verifyRing's result depends only on the first n ring entries, n =
\* group.members.length: entries at index >= n are ignored even when
\* absent-like or shorter than 10 characters (two successive calls on one
\* group with rings that agree on the first n entries get one answer), and
\* against a group with zero members every signature verifies as true.
C22_OnlyFirstEntriesCount ==
    [][cur'.op = "verify" =>
          /\ Len(cur'.group.members) = 0 => cur'.ret = TRUE
          /\ (/\ cur.op = "verify"
              /\ cur.group = cur'.group
              /\ \A i \in 0..(Len(cur.group.members) - 1) :
                     At(cur.signature.ringSignature, i)
                         = At(cur'.signature.ringSignature, i))
             => cur'.ret = cur.ret]_vars

\* a ring whose last entry is 9 characters long was accepted by a group one
\* member shorter than the ring
C22_Witness ==
    /\ cur.op = "verify"
    /\ Len(cur.group.members) = MaxMembers - 1
    /\ Len(cur.signature.ringSignature) = MaxMembers
    /\ cur.signature.ringSignature[MaxMembers] = Nine
    /\ cur.ret = TRUE

----------------------------------------------------------------------------
(* The signing harness.  Signing jobs are drawn at the start;              *)
(* generateLSAGSignature runs on a job (drawing its random scalars), and   *)
(* createKeyImage, verifyLSAGSignature and areLSAGSignaturesLinked are     *)
(* applied to the jobs and to the signatures built.                        *)
(*   SpecRing: one job, over groups of up to MaxMembers members            *)
(*   SpecLink: two jobs, to compare the two signatures                     *)

RandomOutcomes == {1, 2}

\* "a", "ab"
Messages == {Str(<<97>>), Str(<<97, 98>>)}

\* a key pair, another key pair, and a private key with another's public key
SignerKeys ==
    {[privateKey |-> PrivateKeyOf(1), publicKey |-> PublicKeyOf(1)],
     [privateKey |-> PrivateKeyOf(2), publicKey |-> PublicKeyOf(2)],
     [privateKey |-> PrivateKeyOf(1), publicKey |-> PublicKeyOf(2)]}

Job(message, privateKey, publicKey, group, signerIndex) ==
    [message |-> message, privateKey |-> privateKey, publicKey |-> publicKey,
     group |-> group, signerIndex |-> signerIndex]

RingGroups ==
    {LSAGGroup("g1", "ring", Roster(n, 0)) : n \in 0..MaxMembers}
    \cup {LSAGGroup(id, "ring", Roster(1, 0)) : id \in {NoId, ""}}

\* every signer index of the group, one below and one above
RingJobs ==
    {Job(m, key.privateKey, key.publicKey, group, i) :
        m \in Messages,
        key \in SignerKeys \cup {[privateKey |-> MalformedPrivateKey,
                                  publicKey |-> PublicKeyOf(1)]},
        group \in RingGroups, i \in (-1)..MaxMembers}

LinkGroupA == LSAGGroup("g1", "ring", Roster(2, 0))
LinkGroupB == LSAGGroup("g2", "other", Roster(1, 1))

LinkJobs ==
    {Job(m, key.privateKey, key.publicKey, LinkGroupA, i) :
        m \in Messages, key \in SignerKeys, i \in 0..1}
    \cup {Job(m, key.privateKey, key.publicKey, LinkGroupB, 0) :
        m \in Messages, key \in SignerKeys}

NotCalled == [called |-> FALSE]

\* the array of scalars, one generateRandomScalar() per member
RandomValues(outcomes) == [i \in DOMAIN outcomes |-> generateRandomScalar(outcomes[i])]

CallBuildRing(k, outcomes) ==
    /\ sig' = [sig EXCEPT ![k] =
                  [called |-> TRUE, randomValues |-> RandomValues(outcomes),
                   result |-> generateLSAGSignature(
                                 job[k].message, job[k].privateKey, job[k].publicKey,
                                 job[k].group, job[k].signerIndex,
                                 RandomValues(outcomes)),
                   iterations |-> RingIterations(
                                 job[k].message, job[k].privateKey, job[k].group,
                                 job[k].signerIndex, RandomValues(outcomes))]]
    /\ cur' = [op |-> "sign", k |-> k]
    /\ UNCHANGED <<job, groups, signatures, resp, tutorial, page>>

Built(k) == sig[k].called /\ sig[k].result.ok

CallCreateKeyImage(k) ==
    /\ cur' = [op |-> "keyImage", k |-> k,
               ret |-> createKeyImage(job[k].message, job[k].privateKey, job[k].publicKey)]
    /\ UNCHANGED <<job, sig, groups, signatures, resp, tutorial, page>>

CallVerifyBuilt(k) ==
    /\ Built(k)
    /\ cur' = [op |-> "verify", k |-> k, signature |-> sig[k].result.value,
               group |-> job[k].group,
               ret |-> verifyLSAGSignature(sig[k].result.value, job[k].group)]
    /\ UNCHANGED <<job, sig, groups, signatures, resp, tutorial, page>>

CallAreLinked ==
    /\ Built(1) /\ Built(2)
    /\ cur' = [op |-> "linked",
               ret |-> areLSAGSignaturesLinked(sig[1].result.value, sig[2].result.value),
               retSwapped |-> areLSAGSignaturesLinked(sig[2].result.value, sig[1].result.value),
               retSelf |-> areLSAGSignaturesLinked(sig[1].result.value, sig[1].result.value)]
    /\ UNCHANGED <<job, sig, groups, signatures, resp, tutorial, page>>

InitRing ==
    /\ job \in [{1} -> RingJobs]
    /\ sig = [k \in {1} |-> NotCalled]
    /\ cur = NoCall
    /\ ServerIdle
    /\ ClientIdle

NextRing ==
    \/ \E outcomes \in [1..Len(job[1].group.members) -> RandomOutcomes] :
          CallBuildRing(1, outcomes)
    \/ CallCreateKeyImage(1)
    \/ CallVerifyBuilt(1)

SpecRing == InitRing /\ [][NextRing]_vars

\* the two loops side by side: one signing job, and verification of rings
\* of every length up to MaxMembers against the job's group
LoopSignatures ==
    {LSAGSignature(ring, HexDigest(Str(<<97>>)), HexDigest(Str(<<98>>)), Str(<<97>>), "g1") :
        ring \in SeqsUpTo({Nine, Ten}, MaxMembers)}

NextLoops ==
    \/ \E outcomes \in [1..Len(job[1].group.members) -> RandomOutcomes] :
          CallBuildRing(1, outcomes)
    \/ \E signature \in LoopSignatures : CallVerifyRing(signature, job[1].group)

SpecLoops == InitRing /\ [][NextLoops]_vars

\* entry i of the ring verified last is missing or shorter than 10 characters
BadEntry(i) ==
    \/ i >= Len(cur.signature.ringSignature)
    \/ StrLength(cur.signature.ringSignature[i + 1]) < 10

\* C23: buildRing and verifyRing always terminate: each makes at most
\* group.members.length passes through its loop, over the indices in
\* ascending order, and then returns or fails (a ring that is returned has
\* every slot 0..n-1 filled, a signing failure ends the loop in the signer's
\* pass); verifyRing stops at the first bad index and examines no later entry.
C23_LoopsBoundedAndStopEarly ==
    /\ sig[1].called =>
          /\ sig[1].iterations <= Len(job[1].group.members)
          /\ sig[1].result.ok =>
                /\ sig[1].iterations = Len(job[1].group.members)
                /\ Len(sig[1].result.value.ringSignature) = Len(job[1].group.members)
                /\ \A i \in DOMAIN sig[1].result.value.ringSignature :
                       sig[1].result.value.ringSignature[i] # EmptyString
          /\ (~sig[1].result.ok /\ sig[1].result.error = SignFailedError) =>
                sig[1].iterations = job[1].signerIndex + 1
    /\ cur.op = "verify" =>
          /\ cur.examined <= Len(cur.group.members)
          /\ cur.ret = TRUE => cur.examined = Len(cur.group.members)
          /\ cur.ret = FALSE =>
                /\ cur.examined >= 1
                /\ BadEntry(cur.examined - 1)
                /\ \A i \in 0..(cur.examined - 2) : ~BadEntry(i)

\* a signing that failed in the pass of slot 0 of a full group, and a
\* verification that stopped at a bad first entry with a later entry unread
C23_Witness ==
    /\ sig[1].called
    /\ ~sig[1].result.ok
    /\ Len(job[1].group.members) = MaxMembers
    /\ sig[1].iterations = 1
    /\ cur.op = "verify"
    /\ Len(cur.signature.ringSignature) = MaxMembers
    /\ cur.examined = 1
    /\ cur.ret = FALSE

InitLink ==
    /\ job \in [1..2 -> LinkJobs]
    /\ sig = [k \in 1..2 |-> NotCalled]
    /\ cur = NoCall
    /\ ServerIdle
    /\ ClientIdle

NextLink ==
    \/ \E k \in 1..2 :
          \E outcomes \in [1..Len(job[k].group.members) -> RandomOutcomes] :
              CallBuildRing(k, outcomes)
    \/ \E k \in 1..2 : CallCreateKeyImage(k)
    \/ CallAreLinked

SpecLink == InitLink /\ [][NextLink]_vars

----------------------------------------------------------------------------
(* Claims about the ring constructor (SpecRing) *)

Value(k) == sig[k].result.value

\* the job names a signer of its group
SignerInRange(k) ==
    0 <= job[k].signerIndex /\ job[k].signerIndex < Len(job[k].group.members)

\* job 1 signs with a key pair at the place of its public key
HonestRingSigner ==
    /\ [publicKey |-> job[1].publicKey, privateKey |-> job[1].privateKey] \in KeyPairs
    /\ SignerInRange(1)
    /\ job[1].group.members[job[1].signerIndex + 1].publicKey = job[1].publicKey

\* C2: sign-then-verify round trip: for a group of n >= 1 members with an id
\* and a signer index 0 <= i < n, verifyRing accepts what buildRing returned,
\* provided every produced ring entry has length >= 10.
C2_SignThenVerify ==
    (/\ cur.op = "verify"
     /\ Len(job[1].group.members) >= 1
     /\ SignerInRange(1)
     /\ \A i \in DOMAIN Value(1).ringSignature :
            StrLength(Value(1).ringSignature[i]) >= 10)
    => cur.ret = TRUE

\* the last member of a full group signed and the signature was accepted
C2_Witness ==
    /\ cur.op = "verify"
    /\ Len(job[1].group.members) = MaxMembers
    /\ job[1].signerIndex = MaxMembers - 1
    /\ cur.signature = Value(1)
    /\ cur.ret = TRUE

RECURSIVE AbsorbedInOrder(_, _, _, _)
\* challenge is a chain value that absorbed entry i of the ring together with
\* member i's public key, for i = upTo down to 1 (the last absorbed first)
AbsorbedInOrder(challenge, ringSignature, members, upTo) ==
    IF upTo = 0 THEN TRUE
    ELSE /\ Len(challenge) = 1
         /\ challenge[1].k = "hex"
         /\ LET absorbed == challenge[1].a
            IN /\ Len(absorbed) >= 2
               /\ Len(ringSignature[upTo]) = 1
               /\ absorbed[2] = ringSignature[upTo][1]
               /\ SubSeq(absorbed, 3, Len(absorbed)) = members[upTo].publicKey
               /\ AbsorbedInOrder(<<absorbed[1]>>, ringSignature, members, upTo - 1)

\* C10: every signature buildRing returns has exactly group.members.length
\* ring entries, entry i belonging to member i in group order (the chain
\* absorbed entry i with member i's public key), and carries the input
\* message and the group's id unchanged.
C10_RingShape ==
    Built(1) =>
        /\ Len(Value(1).ringSignature) = Len(job[1].group.members)
        /\ Value(1).message = job[1].message
        /\ Value(1).groupId = job[1].group.id
        /\ AbsorbedInOrder(Value(1).challenge, Value(1).ringSignature,
                           job[1].group.members, Len(job[1].group.members))

\* a signature over "ab" was built for a full group
C10_Witness ==
    /\ Built(1)
    /\ Len(job[1].group.members) = MaxMembers
    /\ job[1].message = Str(<<97, 98>>)
    /\ SignerInRange(1)

RECURSIVE ChainValue(_, _)
\* c_i of job k, recomputed from the job, the scalars drawn and the ring
\* returned: c_0 the seed, c_i = Hash(c_(i-1) ++ entry_(i-1) ++ pk_(i-1))
ChainValue(k, i) ==
    IF i = 0
    THEN HexDigest(job[k].message \o JsonStringify(PublicKeysOf(job[k].group))
                       \o ToStr(At(sig[k].randomValues, 0)))
    ELSE HexDigest(ChainValue(k, i - 1) \o Value(k).ringSignature[i]
                       \o job[k].group.members[i].publicKey)

\* what a ring entry hashes or signs ends with this chain value
ComputedFrom(entry, challenge) ==
    /\ Len(entry) = 1
    /\ Len(entry[1].a) >= 1
    /\ <<entry[1].a[Len(entry[1].a)]>> = challenge

\* C11: chained challenge: with c_0 = Hash(message ++ JSON(all member public
\* keys) ++ r_0) and c_(i+1) = Hash(c_i ++ entry_i ++ members[i].publicKey) in
\* ascending order, entry_i is computed from c_i, the stored challenge is c_n,
\* and for n >= 1 it is not the seed c_0.
C11_ChainedChallenge ==
    Built(1) =>
        LET n == Len(job[1].group.members)
        IN /\ Len(Value(1).ringSignature) = n
           /\ \A i \in 1..n : ComputedFrom(Value(1).ringSignature[i], ChainValue(1, i - 1))
           /\ Value(1).challenge = ChainValue(1, n)
           /\ n >= 1 => Value(1).challenge # ChainValue(1, 0)

\* a full group, the last member signing: the stored challenge is the chain
\* after MaxMembers entries
C11_Witness ==
    /\ Built(1)
    /\ Len(job[1].group.members) = MaxMembers
    /\ job[1].signerIndex = MaxMembers - 1
    /\ Value(1).challenge = ChainValue(1, MaxMembers)
    /\ Value(1).challenge # ChainValue(1, 0)

\* the slots of the returned ring that the Sign primitive produced
SignedSlots(k) ==
    {i \in DOMAIN Value(k).ringSignature :
        Len(Value(k).ringSignature[i]) = 1 /\ Value(k).ringSignature[i][1].k = "sig"}

\* C12: in the signature buildRing returns exactly one ring entry, the one at
\* signerIndex, is Sign(message ++ c) under the signer's private key; every
\* other entry i is Hash(message ++ r_i ++ c) and involves no private key
\* (signerIndex within the group, as the contract of buildRing requires; no
\* other slot is ever signed).
C12_SignerSlotAlone ==
    Built(1) =>
        /\ \A i \in DOMAIN Value(1).ringSignature :
              IF i - 1 = job[1].signerIndex
              THEN Value(1).ringSignature[i]
                       = RsaSign(job[1].message \o ChainValue(1, i - 1), job[1].privateKey)
              ELSE /\ Value(1).ringSignature[i]
                          = Base64Digest(job[1].message \o sig[1].randomValues[i]
                                             \o ChainValue(1, i - 1))
                   /\ Value(1).ringSignature[i][1].b = EmptyString
        /\ SignedSlots(1) \subseteq {job[1].signerIndex + 1}
        /\ SignerInRange(1) => SignedSlots(1) = {job[1].signerIndex + 1}

\* the first member of a full group signed: slot 0 is the signature, the
\* other slots are digests
C12_Witness ==
    /\ Built(1)
    /\ Len(job[1].group.members) = MaxMembers
    /\ job[1].signerIndex = 0
    /\ SignedSlots(1) = {1}
    /\ \A i \in 2..MaxMembers : Value(1).ringSignature[i][1].k = "b64"

\* group.id is absent
IdAbsent(group) == group.id = NoId \/ group.id = ""

\* C13: buildRing fails with the missing-identifier error whenever group.id
\* is absent (undefined or empty), for every message, key pair and signer
\* index, and returns no signature then (a private key that is no key fails
\* at the signer's slot before the id is looked at, still with no signature).
C13_MissingIdFails ==
    (sig[1].called /\ IdAbsent(job[1].group)) =>
        /\ ~sig[1].result.ok
        /\ sig[1].result.value = NoSignature
        /\ IsPrivateKey(job[1].privateKey) => sig[1].result.error = MissingIdError

\* a member with its key pair signs for a group with an empty id and gets
\* the missing-identifier error
C13_Witness ==
    /\ sig[1].called
    /\ job[1].group.id = ""
    /\ HonestRingSigner
    /\ sig[1].result.error = MissingIdError
    /\ ~sig[1].result.ok

----------------------------------------------------------------------------
(* Claims about two signatures (SpecLink) *)

BothBuilt == Built(1) /\ Built(2)

\* the job signs with a key pair, at the place of its public key in the group
HonestSigner(k) ==
    /\ [publicKey |-> job[k].publicKey, privateKey |-> job[k].privateKey] \in KeyPairs
    /\ SignerInRange(k)
    /\ job[k].group.members[job[k].signerIndex + 1].publicKey = job[k].publicKey

SameKeyPair == job[1].privateKey = job[2].privateKey /\ job[1].publicKey = job[2].publicKey

\* what anyone holding the signature record can compute: the length of each
\* ring entry
EntryLengths(signature) ==
    [i \in DOMAIN signature.ringSignature |-> StrLength(signature.ringSignature[i])]

\* C3: a signature does not reveal which member produced it: for a fixed
\* group and message, the signatures of signer i and of signer j (i # j)
\* are indistinguishable to an observer of the record and the public keys; in
\* particular the signer's slot cannot be told from the others (here: by the
\* lengths of the entries, which the observer sees).
C3_SignerSlotIndistinguishable ==
    (/\ BothBuilt /\ HonestSigner(1) /\ HonestSigner(2)
     /\ job[1].group = job[2].group
     /\ job[1].message = job[2].message
     /\ job[1].signerIndex # job[2].signerIndex)
    => EntryLengths(Value(1)) = EntryLengths(Value(2))

\* C4: if the same signer (same key pair) signs twice, both signatures carry
\* the same key image and areLinked reports them as linked, whatever the two
\* messages and groups are.
C4_SameSignerLinked ==
    (BothBuilt /\ SameKeyPair /\ HonestSigner(1) /\ HonestSigner(2)) =>
        /\ Value(1).keyImage = Value(2).keyImage
        /\ cur.op = "linked" => cur.ret = TRUE

C8_LinkedIffSameKeyImage ==
    cur.op = "linked" =>
        /\ cur.ret = (Value(1).keyImage = Value(2).keyImage)
        /\ cur.retSelf = TRUE
        /\ cur.retSwapped = cur.ret

\* two signatures with one key image that differ in groupId, message, ring
\* entries and challenge are linked
C8_Witness ==
    /\ cur.op = "linked"
    /\ cur.ret = TRUE
    /\ Value(1).groupId # Value(2).groupId
    /\ Value(1).message # Value(2).message
    /\ Value(1).ringSignature # Value(2).ringSignature
    /\ Value(1).challenge # Value(2).challenge

\* Hash(Hash(message ++ pk) ++ sk), hex
KeyImageFormula(k) ==
    HexDigest(HexDigest(job[k].message \o job[k].publicKey) \o job[k].privateKey)

\* C9: deriveKeyImage(message, sk, pk) is Hash(Hash(message ++ pk) ++ sk), a
\* function of its three inputs alone; the keyImage of buildRing's result is
\* that value, the same for every group, signer index and draw of the random
\* scalars.
C9_KeyImageFunctionOfInputs ==
    /\ cur.op = "keyImage" => cur.ret = KeyImageFormula(cur.k)
    /\ \A k \in DOMAIN job : Built(k) => Value(k).keyImage = KeyImageFormula(k)
    /\ (/\ BothBuilt /\ SameKeyPair /\ job[1].message = job[2].message)
       => Value(1).keyImage = Value(2).keyImage

\* the same message and key pair signed for two groups, at two signer
\* indexes and with other random scalars
C9_Witness ==
    /\ BothBuilt /\ SameKeyPair /\ job[1].message = job[2].message
    /\ job[1].group # job[2].group
    /\ job[1].signerIndex # job[2].signerIndex
    /\ sig[1].randomValues[1] # sig[2].randomValues[1]
    /\ cur.op = "keyImage"

RECURSIVE SeedOf(_, _)
\* the chain value n absorptions before this one: what the first slot of
\* each chain hash holds, n times
SeedOf(challenge, n) ==
    IF n = 0 THEN challenge ELSE SeedOf(<<challenge[1].a[1]>>, n - 1)

\* the two runs drew the same scalars except, possibly, for slot i (0-based)
SameScalarsExceptAt(i) ==
    \A j \in DOMAIN sig[1].randomValues :
        j # i + 1 => sig[1].randomValues[j] = sig[2].randomValues[j]

\* C20: the seed challenge of buildRing depends on r_0 only, whatever the
\* signer index is; and for a signer index k # 0 the scalar r_k drawn for the
\* signer's own slot influences no field of the returned signature: two runs
\* on the same inputs that differ only in r_k return identical signatures.
C20_SignerScalarUnused ==
    (BothBuilt /\ job[1] = job[2]) =>
        LET n == Len(job[1].group.members)
        IN /\ At(sig[1].randomValues, 0) = At(sig[2].randomValues, 0)
                  => SeedOf(Value(1).challenge, n) = SeedOf(Value(2).challenge, n)
           /\ At(sig[1].randomValues, 0) # At(sig[2].randomValues, 0)
                  => SeedOf(Value(1).challenge, n) # SeedOf(Value(2).challenge, n)
           /\ (SignerInRange(1) /\ job[1].signerIndex # 0
                   /\ SameScalarsExceptAt(job[1].signerIndex))
                  => Value(1) = Value(2)

\* two runs of one job with signer index 1 whose scalars differ in r_1 alone
C20_Witness ==
    /\ BothBuilt /\ job[1] = job[2]
    /\ job[1].signerIndex = 1
    /\ sig[1].randomValues[1] = sig[2].randomValues[1]
    /\ sig[1].randomValues[2] # sig[2].randomValues[2]
    /\ Value(1) = Value(2)

----------------------------------------------------------------------------
(* The store (MemStorage) *)

MapSet(map, key, value) ==
    [x \in DOMAIN map \cup {key} |-> IF x = key THEN value ELSE map[x]]

MapDelete(map, key) == [x \in DOMAIN map \ {key} |-> map[x]]

\* this.groups.get(groupId) is defined
HasGroup(groupId) == groupId \in DOMAIN groups

\* mutant: the group is stored as it came, no id is assigned
createGroup_keepsBodyId(group, uuid) == group

\* the group createGroup stores: { ...group, id: group.id || crypto.randomUUID() }
createGroup(group, uuid) ==
    LSAGGroup(IF group.id = NoId \/ group.id = "" THEN uuid ELSE group.id,
              group.name, group.members)

\* mutant: the record is filed under its challenge
createSignature_keyedByChallenge(signature) ==
    MapSet(signatures, signature.challenge, signature)

\* mutant: a key image already in the map keeps its record
createSignature_keepsExisting(signature) ==
    IF signature.keyImage \in DOMAIN signatures
    THEN signatures
    ELSE MapSet(signatures, signature.keyImage, signature)

\* the map after createSignature: the key image is the signature's id
createSignature(signature) == MapSet(signatures, signature.keyImage, signature)

getSignaturesByGroup(groupId) ==
    {signatures[id] : id \in {x \in DOMAIN signatures : signatures[x].groupId = groupId}}

----------------------------------------------------------------------------
(* Spec: the request handlers of the LSAG routes over the store *)

Uuids == {"u1"}
PathIds == {"g1", "u1"}
BodyIds == {NoId, "", "g1"}

\* the member lists a request carries: members 1 and 2, or member 1 alone
ServerRosters == {Roster(2, 0), Roster(1, 0)}

GroupBodies == {LSAGGroup(id, "ring", members) : id \in BodyIds, members \in ServerRosters}

\* PUT overrides the id of the body with the id of the path
UpdateBodies == {LSAGGroup(NoId, "ring", members) : members \in ServerRosters}

\* the group sign requests name
SignGroupIds == {"g1"}

\* member 1's public key with its own private key, with an outsider's and
\* with a string that is no key; member 2's public key is never offered, so
\* index 1 is where the public key does not match
SignRequests ==
    [message : {Str(<<97>>)},
     privateKey : {PrivateKeyOf(1), PrivateKeyOf(3), MalformedPrivateKey},
     publicKey : {PublicKeyOf(1)},
     groupId : SignGroupIds,
     signerIndex : (-1)..2]

ForgedSignature ==
    LSAGSignature(<<Ten, TenOther>>, Str(<<120>>), Str(<<120>>), Str(<<97>>), "g1")

UnknownSignatureId == Str(<<120>>)

StoredSignatures == {signatures[id] : id \in DOMAIN signatures}

\* POST /api/lsag/groups
CreateGroupRequest(body, uuid) ==
    LET savedGroup == createGroup(body, uuid)
    IN /\ groups' = MapSet(groups, savedGroup.id, savedGroup)
       /\ resp' = [op |-> "createGroup", status |-> 200, id |-> savedGroup.id]
       /\ UNCHANGED <<signatures, cur, job, sig, tutorial, page>>

\* PUT /api/lsag/groups/:id
UpdateGroupRequest(groupId, body) ==
    /\ IF ~HasGroup(groupId)
       THEN /\ resp' = [op |-> "updateGroup", status |-> 404, message |-> "Group not found"]
            /\ UNCHANGED groups
       ELSE LET updatedGroup == LSAGGroup(groupId, body.name, body.members)
            IN /\ groups' = MapSet(groups, updatedGroup.id, updatedGroup)
               /\ resp' = [op |-> "updateGroup", status |-> 200, id |-> updatedGroup.id]
    /\ UNCHANGED <<signatures, cur, job, sig, tutorial, page>>

\* mutant: the signatures made for the group go with it
DeleteGroupRequest_cascades(groupId) ==
    /\ IF ~HasGroup(groupId)
       THEN /\ resp' = [op |-> "deleteGroup", status |-> 404, message |-> "Group not found"]
            /\ UNCHANGED <<groups, signatures>>
       ELSE /\ groups' = MapDelete(groups, groupId)
            /\ signatures' = [id \in {x \in DOMAIN signatures :
                                         signatures[x].groupId # groupId}
                                 |-> signatures[id]]
            /\ resp' = [op |-> "deleteGroup", status |-> 200]
    /\ UNCHANGED <<cur, job, sig, tutorial, page>>

\* DELETE /api/lsag/groups/:id
DeleteGroupRequest(groupId) ==
    /\ IF ~HasGroup(groupId)
       THEN /\ resp' = [op |-> "deleteGroup", status |-> 404, message |-> "Group not found"]
            /\ UNCHANGED groups
       ELSE /\ groups' = MapDelete(groups, groupId)
            /\ resp' = [op |-> "deleteGroup", status |-> 200]
    /\ UNCHANGED <<signatures, cur, job, sig, tutorial, page>>

\* the 500 answer of the sign handler's catch block
SignHandlerError(error) == "Error generating LSAG signature: Error: " \o error

\* mutant: the public key at signerIndex is not compared with the request's
SignOutcome_noPublicKeyCheck(req, randomValues) ==
    IF req.signerIndex < 0
    THEN [status |-> 400, message |-> "Signer index must be a non-negative integer",
          constructed |-> FALSE, stored |-> FALSE, signature |-> NoSignature]
    ELSE IF ~HasGroup(req.groupId)
    THEN [status |-> 404, message |-> "Group not found",
          constructed |-> FALSE, stored |-> FALSE, signature |-> NoSignature]
    ELSE LET group == groups[req.groupId]
         IN IF req.signerIndex >= Len(group.members)
            THEN [status |-> 400, message |-> "Invalid signer index",
                  constructed |-> FALSE, stored |-> FALSE, signature |-> NoSignature]
            ELSE LET signature ==
                         generateLSAGSignature(req.message, req.privateKey, req.publicKey,
                                               group, req.signerIndex, randomValues)
                 IN IF ~signature.ok
                    THEN [status |-> 500, message |-> SignHandlerError(signature.error),
                          constructed |-> TRUE, stored |-> FALSE,
                          signature |-> NoSignature]
                    ELSE [status |-> 200, message |-> "",
                          constructed |-> TRUE, stored |-> TRUE,
                          signature |-> signature.value]

\* storage.getGroup(groupId) found nothing
NoGroup == LSAGGroup(NoId, "", <<>>)

\* what POST /api/lsag/sign answers and the signature it stores, if any, for
\* the group object storage.getGroup returned (found: it returned one)
SignOutcomeOn(req, found, group, randomValues) ==
    IF req.signerIndex < 0
    THEN [status |-> 400, message |-> "Signer index must be a non-negative integer",
          constructed |-> FALSE, stored |-> FALSE, signature |-> NoSignature]
    ELSE IF ~found
    THEN [status |-> 404, message |-> "Group not found",
          constructed |-> FALSE, stored |-> FALSE, signature |-> NoSignature]
    ELSE IF req.signerIndex >= Len(group.members)
    THEN [status |-> 400, message |-> "Invalid signer index",
          constructed |-> FALSE, stored |-> FALSE, signature |-> NoSignature]
    ELSE IF group.members[req.signerIndex + 1].publicKey # req.publicKey
    THEN [status |-> 400,
          message |-> "Public key doesn't match the key at signerIndex",
          constructed |-> FALSE, stored |-> FALSE, signature |-> NoSignature]
    ELSE LET signature ==
                 generateLSAGSignature(req.message, req.privateKey, req.publicKey,
                                       group, req.signerIndex, randomValues)
         IN IF ~signature.ok
            THEN [status |-> 500, message |-> SignHandlerError(signature.error),
                  constructed |-> TRUE, stored |-> FALSE,
                  signature |-> NoSignature]
            ELSE [status |-> 200, message |-> "",
                  constructed |-> TRUE, stored |-> TRUE,
                  signature |-> signature.value]

\* the handler run in one piece, on the group stored now
SignOutcome(req, randomValues) ==
    SignOutcomeOn(req, HasGroup(req.groupId),
                  IF HasGroup(req.groupId) THEN groups[req.groupId] ELSE NoGroup,
                  randomValues)

\* the request gets as far as generateLSAGSignature
ReachesRingConstructor(req) ==
    /\ req.signerIndex >= 0
    /\ HasGroup(req.groupId)
    /\ req.signerIndex < Len(groups[req.groupId].members)
    /\ groups[req.groupId].members[req.signerIndex + 1].publicKey = req.publicKey

\* POST /api/lsag/sign; randomValues are the scalars generateLSAGSignature
\* draws, none when the request is rejected before
SignRequest(req, randomValues) ==
    \E out \in {SignOutcome(req, randomValues)} :
       /\ out.stored =>
              Cardinality(DOMAIN signatures \cup {out.signature.keyImage}) <= MaxSignatures
       /\ signatures' = IF out.stored THEN createSignature(out.signature) ELSE signatures
       /\ resp' = [op |-> "sign", status |-> out.status, req |-> req,
                  constructed |-> out.constructed, message |-> out.message,
                  id |-> out.signature.keyImage]
       /\ UNCHANGED <<groups, cur, job, sig, tutorial, page>>

\* mutant: the verified signature is kept in the store
VerifyRequest_storesSignature(signature, groupId) ==
    /\ resp' = IF ~HasGroup(groupId)
               THEN [op |-> "verify", status |-> 404, groupId |-> groupId,
                     message |-> "Group not found"]
               ELSE [op |-> "verify", status |-> 200, groupId |-> groupId,
                     stored |-> signature \in StoredSignatures,
                     valid |-> verifyLSAGSignature(signature, groups[groupId])]
    /\ signatures' = IF HasGroup(groupId) THEN createSignature(signature) ELSE signatures
    /\ UNCHANGED <<groups, cur, job, sig, tutorial, page>>

\* POST /api/lsag/verify
VerifyRequest(signature, groupId) ==
    /\ resp' = IF ~HasGroup(groupId)
               THEN [op |-> "verify", status |-> 404, groupId |-> groupId,
                     message |-> "Group not found"]
               ELSE [op |-> "verify", status |-> 200, groupId |-> groupId,
                     stored |-> signature \in StoredSignatures,
                     valid |-> verifyLSAGSignature(signature, groups[groupId])]
    /\ UNCHANGED <<groups, signatures, cur, job, sig, tutorial, page>>

\* POST /api/lsag/check-linkability
CheckLinkabilityRequest(signature1Id, signature2Id) ==
    /\ resp' = IF signature1Id \notin DOMAIN signatures
                  \/ signature2Id \notin DOMAIN signatures
               THEN [op |-> "checkLinkability", status |-> 404,
                     signature1Id |-> signature1Id, signature2Id |-> signature2Id,
                     message |-> "One or both signatures not found"]
               ELSE [op |-> "checkLinkability", status |-> 200,
                     signature1Id |-> signature1Id, signature2Id |-> signature2Id,
                     linked |-> areLSAGSignaturesLinked(signatures[signature1Id],
                                                        signatures[signature2Id])]
    /\ UNCHANGED <<groups, signatures, cur, job, sig, tutorial, page>>

Init ==
    /\ groups = NoGroups
    /\ signatures = NoSignatures
    /\ resp = NoRequest
    /\ cur = NoCall
    /\ HarnessIdle
    /\ ClientIdle

Next ==
    \/ \E body \in GroupBodies, uuid \in Uuids : CreateGroupRequest(body, uuid)
    \/ \E groupId \in PathIds, body \in UpdateBodies : UpdateGroupRequest(groupId, body)
    \/ \E groupId \in PathIds : DeleteGroupRequest(groupId)
    \/ \E req \in SignRequests :
          \E outcomes \in [1..(IF ReachesRingConstructor(req)
                               THEN Len(groups[req.groupId].members) ELSE 0)
                           -> RandomOutcomes] :
              SignRequest(req, RandomValues(outcomes))
    \/ \E signature \in StoredSignatures \cup {ForgedSignature}, groupId \in PathIds :
          VerifyRequest(signature, groupId)
    \/ \E id1, id2 \in DOMAIN signatures \cup {UnknownSignatureId} :
          CheckLinkabilityRequest(id1, id2)

Spec == Init /\ [][Next]_vars

----------------------------------------------------------------------------
(* SpecStore: the handlers again, with the two listings, and sign requests  *)
(* by both members of the two-member roster against either group.           *)

\* members 1 and 2, each with its own key pair at its own index
StoreSigners ==
    {[privateKey |-> PrivateKeyOf(1), publicKey |-> PublicKeyOf(1), signerIndex |-> 0],
     [privateKey |-> PrivateKeyOf(2), publicKey |-> PublicKeyOf(2), signerIndex |-> 1]}

StoreSignRequests ==
    {[message |-> Str(<<97>>), privateKey |-> signer.privateKey,
      publicKey |-> signer.publicKey, groupId |-> groupId,
      signerIndex |-> signer.signerIndex] :
        signer \in StoreSigners, groupId \in PathIds}

\* GET /api/lsag/signatures
ListSignaturesRequest ==
    /\ resp' = [op |-> "listSignatures", status |-> 200, signatures |-> StoredSignatures]
    /\ UNCHANGED <<groups, signatures, cur, job, sig, tutorial, page>>

\* GET /api/lsag/signatures/group/:groupId
ListGroupSignaturesRequest(groupId) ==
    /\ resp' = [op |-> "listGroupSignatures", status |-> 200, groupId |-> groupId,
               signatures |-> getSignaturesByGroup(groupId)]
    /\ UNCHANGED <<groups, signatures, cur, job, sig, tutorial, page>>

NextStore ==
    \/ \E body \in GroupBodies, uuid \in Uuids : CreateGroupRequest(body, uuid)
    \/ \E groupId \in PathIds, body \in UpdateBodies : UpdateGroupRequest(groupId, body)
    \/ \E groupId \in PathIds : DeleteGroupRequest(groupId)
    \/ \E req \in StoreSignRequests :
          \E outcomes \in [1..(IF ReachesRingConstructor(req)
                               THEN Len(groups[req.groupId].members) ELSE 0)
                           -> RandomOutcomes] :
              SignRequest(req, RandomValues(outcomes))
    \/ \E signature \in StoredSignatures, groupId \in PathIds :
          VerifyRequest(signature, groupId)
    \/ \E id1, id2 \in DOMAIN signatures \cup {UnknownSignatureId} :
          CheckLinkabilityRequest(id1, id2)
    \/ ListSignaturesRequest
    \/ \E groupId \in PathIds : ListGroupSignaturesRequest(groupId)

SpecStore == Init /\ [][NextStore]_vars

----------------------------------------------------------------------------
(* SpecInterleave: the sign handler step by step.  The handler suspends at  *)
(* `await storage.getGroup`, at `await generateLSAGSignature` and at        *)
(* `await storage.createSignature`; requests that create, update or delete  *)
(* the group run between its steps.  job holds the one sign request in      *)
(* progress or last finished: its position, the group object it got from    *)
(* the store and the outcome it computed.                                   *)

\* members 1 and 2, member 1 alone, members 1 and 3
InterleaveRosters == ServerRosters \cup {<<GroupMember(1), GroupMember(3)>>}

InterleaveBodies == {LSAGGroup("g1", "ring", members) : members \in InterleaveRosters}

InterleaveRequests ==
    [message : {Str(<<97>>)},
     privateKey : {PrivateKeyOf(1)},
     publicKey : {PublicKeyOf(1)},
     groupId : SignGroupIds,
     signerIndex : (-1)..1]

NoOutcome ==
    [status |-> 0, message |-> "", constructed |-> FALSE, stored |-> FALSE,
     signature |-> NoSignature]

SignCall(pc, req, found, group, out) ==
    [pc |-> pc, req |-> req, found |-> found, group |-> group, out |-> out]

SignInFlight == job # NoJobs /\ job[1].pc \in {"read", "built"}

\* mutant: the handler fetches the group again when it resumes
HeldGroup_refetched(call) ==
    IF HasGroup(call.req.groupId) THEN groups[call.req.groupId] ELSE call.group

\* `group`, the object the handler holds since storage.getGroup returned
HeldGroup(call) == call.group

SignAnswer(req, out) ==
    [op |-> "sign", status |-> out.status, req |-> req,
     constructed |-> out.constructed, message |-> out.message,
     id |-> out.signature.keyImage]

\* the request is parsed and storage.getGroup(groupId) is called
SignRead(req) ==
    /\ ~SignInFlight
    /\ IF req.signerIndex < 0
       THEN \E out \in {SignOutcomeOn(req, FALSE, NoGroup, <<>>)} :
               /\ job' = <<SignCall("answered", req, FALSE, NoGroup, out)>>
               /\ resp' = SignAnswer(req, out)
       ELSE /\ job' = <<SignCall("read", req, HasGroup(req.groupId),
                                 IF HasGroup(req.groupId)
                                 THEN groups[req.groupId] ELSE NoGroup,
                                 NoOutcome)>>
            /\ UNCHANGED resp
    /\ UNCHANGED <<groups, signatures, cur, sig, tutorial, page>>

\* the handler resumes with the group: the checks, then generateLSAGSignature
SignBuild(randomValues) ==
    /\ job # NoJobs
    /\ job[1].pc = "read"
    /\ \E out \in {SignOutcomeOn(job[1].req, job[1].found, HeldGroup(job[1]),
                                 randomValues)} :
          IF out.stored
          THEN /\ job' = <<[job[1] EXCEPT !.pc = "built", !.out = out]>>
               /\ UNCHANGED resp
          ELSE /\ job' = <<[job[1] EXCEPT !.pc = "answered", !.out = out]>>
               /\ resp' = SignAnswer(job[1].req, out)
    /\ UNCHANGED <<groups, signatures, cur, sig, tutorial, page>>

\* the handler resumes with the signature: storage.createSignature, res.json
SignStore ==
    /\ job # NoJobs
    /\ job[1].pc = "built"
    /\ Cardinality(DOMAIN signatures \cup {job[1].out.signature.keyImage}) <= MaxSignatures
    /\ signatures' = createSignature(job[1].out.signature)
    /\ resp' = SignAnswer(job[1].req, job[1].out)
    /\ job' = <<[job[1] EXCEPT !.pc = "stored"]>>
    /\ UNCHANGED <<groups, cur, sig, tutorial, page>>

InitInterleave ==
    /\ groups = NoGroups
    /\ signatures = NoSignatures
    /\ resp = NoRequest
    /\ cur = NoCall
    /\ HarnessIdle
    /\ ClientIdle

NextInterleave ==
    \/ \E body \in InterleaveBodies, uuid \in Uuids : CreateGroupRequest(body, uuid)
    \/ \E groupId \in SignGroupIds, body \in InterleaveBodies :
          UpdateGroupRequest(groupId, body)
    \/ \E groupId \in SignGroupIds : DeleteGroupRequest(groupId)
    \/ \E req \in InterleaveRequests : SignRead(req)
    \/ \E outcomes \in [1..(IF SignInFlight THEN Len(job[1].group.members) ELSE 0)
                        -> RandomOutcomes] :
          SignBuild(RandomValues(outcomes))
    \/ SignStore

SpecInterleave == InitInterleave /\ [][NextInterleave]_vars

----------------------------------------------------------------------------
(* Claims about the service (Spec) *)

\* C6: a signature for a group can only be created by a legitimate member:
\* every signature that POST /api/lsag/sign produces and stores for group G
\* was generated with a private key that corresponds to the public key of a
\* member of G.
C6_OnlyMembersSign ==
    (resp.op = "sign" /\ resp.status = 200) =>
        \E i \in DOMAIN groups[resp.req.groupId].members :
            [publicKey |-> groups[resp.req.groupId].members[i].publicKey,
             privateKey |-> resp.req.privateKey] \in KeyPairs

\* the conditions under which the sign request may reach the ring
\* constructor, on the store as the request finds it
SignGuard(req) ==
    /\ req.groupId \in DOMAIN groups
    /\ 0 <= req.signerIndex
    /\ req.signerIndex < Len(groups[req.groupId].members)
    /\ groups[req.groupId].members[req.signerIndex + 1].publicKey = req.publicKey

\* C14: the sign request handler invokes the ring constructor only when the
\* group exists, 0 <= signerIndex < group.members.length and
\* group.members[signerIndex].publicKey equals the supplied public key; in
\* every other case it rejects the request (404 or 400) without constructing
\* or storing a signature.
C14_SignGuarded ==
    [][resp'.op = "sign" =>
          /\ resp'.constructed <=> SignGuard(resp'.req)
          /\ ~SignGuard(resp'.req) =>
                 /\ resp'.status \in {400, 404}
                 /\ signatures' = signatures]_vars

\* a request naming slot 1 with member 1's public key was rejected with 400
\* while signatures were stored
C14_Witness ==
    /\ resp.op = "sign"
    /\ resp.req.groupId \in DOMAIN groups
    /\ resp.req.signerIndex = 1
    /\ Len(groups[resp.req.groupId].members) = 2
    /\ resp.status = 400
    /\ ~resp.constructed
    /\ DOMAIN signatures # {}

\* C15: a stored RingSignature is immutable: once created and stored, the
\* record retrievable under its key image never changes under any later
\* sign, verify, linkability or group create/update/delete operation.
C15_StoredSignatureImmutable ==
    [][\A id \in DOMAIN signatures :
           id \in DOMAIN signatures' /\ signatures'[id] = signatures[id]]_vars

\* the stored signature has as many entries as its group, fetched by id, has
\* members
LengthInvariant(signature) ==
    Len(signature.ringSignature) = Len(groups[signature.groupId].members)

\* C16 as stated: at verification time the length invariant holds: for every
\* stored signature s, after any sequence of group create/update and sign
\* operations, s.ringEntries.length equals the current member count of the
\* stored group with id s.groupId, so a signature that verified true right
\* after signing still verifies true later.
C16_LengthInvariantAtVerification ==
    \A id \in DOMAIN signatures :
        HasGroup(signatures[id].groupId) =>
            /\ LengthInvariant(signatures[id])
            /\ verifyLSAGSignature(signatures[id], groups[signatures[id].groupId])

\* C16 amended: the length invariant holds at signing time: the signature a
\* sign request stores has as many ring entries as the group it was signed
\* against has members, and verifies against that group.
C16_LengthInvariantAtSigning ==
    (resp.op = "sign" /\ resp.status = 200) =>
        /\ resp.id \in DOMAIN signatures
        /\ signatures[resp.id].groupId = resp.req.groupId
        /\ LengthInvariant(signatures[resp.id])
        /\ verifyLSAGSignature(signatures[resp.id], groups[resp.req.groupId])

\* a signature was just stored for a group of two
C16_Witness ==
    /\ resp.op = "sign" /\ resp.status = 200
    /\ Len(groups[resp.req.groupId].members) = 2
    /\ Len(signatures[resp.id].ringSignature) = 2

\* C17: the verify and check-linkability requests, successful or not, leave
\* the stored groups and the stored signatures exactly as they were, and the
\* group handed to buildRing by the sign request (the stored object) is
\* not mutated.
C17_ReadOnlyRequests ==
    [][/\ resp'.op \in {"verify", "checkLinkability"} =>
              groups' = groups /\ signatures' = signatures
       /\ resp'.op = "sign" => groups' = groups]_vars

\* a signature that is not in the store was verified against a stored group
\* while signatures were stored
C17_Witness ==
    /\ resp.op = "verify"
    /\ resp.status = 200
    /\ ~resp.stored
    /\ DOMAIN signatures # {}

\* C18: a failure of the signing primitive at the signer's slot is
\* propagated, never swallowed or retried: buildRing then returns no
\* signature, and the sign request answers with an error and leaves the
\* signature store unchanged.
C18_SignFailurePropagated ==
    [][(/\ resp'.op = "sign"
        /\ resp'.req.privateKey = MalformedPrivateKey
        /\ SignGuard(resp'.req))
       => /\ resp'.status = 500
          /\ resp'.message = "Error generating LSAG signature: Error: " \o SignFailedError
          /\ resp'.id = NoSignature.keyImage
          /\ signatures' = signatures]_vars

\* a request with a private key that is no key got 500 while signatures
\* were stored
C18_Witness ==
    /\ resp.op = "sign"
    /\ resp.req.privateKey = MalformedPrivateKey
    /\ resp.status = 500
    /\ DOMAIN signatures # {}

\* the sign request in job has just been answered with 200
JustStored ==
    /\ job # NoJobs
    /\ job[1].pc = "stored"
    /\ resp.op = "sign"
    /\ resp.status = 200

\* the data the seed of the signature's chain hashes starts with the
\* message and the JSON array of these members' public keys
SeededWith(signature, message, group) ==
    LET n == Len(group.members)
        seeded == SeedOf(signature.challenge, n)[1].a
        prefix == message \o JsonStringify(PublicKeysOf(group))
    IN /\ Len(seeded) >= Len(prefix)
       /\ SubSeq(seeded, 1, Len(prefix)) = prefix

\* C19: a sign request that interleaves with an update or delete of the same
\* group works on one consistent snapshot of the group: the signer-index and
\* public-key checks, the ring construction and the stored result all use the
\* member list read at the start of the request, so the stored signature's
\* ringEntries length equals that snapshot's member count and never mixes
\* old and new members.
C19_SignUsesOneSnapshot ==
    JustStored =>
        LET snapshot == job[1].group
            stored == signatures[resp.id]
        IN /\ job[1].found
           /\ job[1].req.signerIndex < Len(snapshot.members)
           /\ snapshot.members[job[1].req.signerIndex + 1].publicKey = job[1].req.publicKey
           /\ stored = job[1].out.signature
           /\ Len(stored.ringSignature) = Len(snapshot.members)
           /\ SeededWith(stored, job[1].req.message, snapshot)
           /\ AbsorbedInOrder(stored.challenge, stored.ringSignature,
                              snapshot.members, Len(snapshot.members))

\* the group was given another member list while the request was in
\* progress: the signature stored is the snapshot's, the store holds a group
\* of another size
C19_Witness ==
    /\ JustStored
    /\ HasGroup(job[1].req.groupId)
    /\ Len(job[1].group.members) = 2
    /\ Len(groups[job[1].req.groupId].members) = 1
    /\ Len(signatures[resp.id].ringSignature) = 2

----------------------------------------------------------------------------
(* Claims about the store *)

\* C24: the store-key invariant: each stored signature is filed under its
\* own keyImage, so check-linkability answers linked = true exactly when the
\* two supplied ids are equal (and both exist) and never true for two
\* distinct stored records.
C24_LinkedIffSameId ==
    /\ \A id \in DOMAIN signatures : signatures[id].keyImage = id
    /\ resp.op = "checkLinkability" =>
          /\ resp.status = 200 <=>
                 /\ resp.signature1Id \in DOMAIN signatures
                 /\ resp.signature2Id \in DOMAIN signatures
          /\ resp.status = 200 =>
                 resp.linked = (resp.signature1Id = resp.signature2Id)

\* two distinct stored records were compared and found not linked
C24_Witness ==
    /\ resp.op = "checkLinkability"
    /\ resp.status = 200
    /\ resp.signature1Id # resp.signature2Id
    /\ signatures[resp.signature1Id] # signatures[resp.signature2Id]
    /\ resp.linked = FALSE

\* the step is a sign request answered 200 whose key image was stored before
SignsAgain ==
    /\ resp'.op = "sign"
    /\ resp'.status = 200
    /\ \E s \in StoredSignatures : s.keyImage = resp'.id

C26_StoredGroupHasItsId ==
    /\ \A key \in DOMAIN groups :
          /\ groups[key].id = key
          /\ key # NoId
          /\ key # ""
    /\ (resp.op = "sign" /\ resp.constructed) =>
          resp.message # SignHandlerError(MissingIdError)

\* a group whose body had no id is stored under the assigned one, and a
\* sign request against it reached the constructor and was answered 200
C26_Witness ==
    /\ HasGroup("u1")
    /\ groups["u1"].id = "u1"
    /\ resp.op = "sign"
    /\ resp.req.groupId = "u1"
    /\ resp.constructed
    /\ resp.status = 200

\* C27: deleting a group does not delete its signatures: they remain in the
\* store, are still returned by the per-group and the all-signatures
\* listings and are still usable in check-linkability, while a verify
\* request for them answers 404 Group not found.
C27_SignaturesOutliveGroup ==
    [][/\ resp'.op = "deleteGroup" => signatures' = signatures
       /\ resp'.op = "listSignatures" =>
             resp'.signatures = {signatures[id] : id \in DOMAIN signatures}
       /\ (resp'.op = "listGroupSignatures" /\ ~HasGroup(resp'.groupId)) =>
             resp'.signatures = {s \in StoredSignatures : s.groupId = resp'.groupId}
       /\ (/\ resp'.op = "checkLinkability"
           /\ resp'.signature1Id \in DOMAIN signatures
           /\ resp'.signature2Id \in DOMAIN signatures) =>
             resp'.status = 200
       /\ (resp'.op = "verify" /\ ~HasGroup(resp'.groupId)) =>
             /\ resp'.status = 404
             /\ resp'.message = "Group not found"]_vars

\* the listing of a deleted group returned a signature made for it
C27_Witness ==
    /\ resp.op = "listGroupSignatures"
    /\ ~HasGroup(resp.groupId)
    /\ resp.signatures # {}
    /\ resp.signatures \subseteq StoredSignatures

----------------------------------------------------------------------------
(* The basic signature functions of crypto.ts and the client's view of     *)
(* them: POST /api/crypto/generate-keys, /sign and /verify pass their      *)
(* arguments to generateKeyPair, signMessage and verifySignature.          *)

\* useState's null for a string or an object
Null == <<[k |-> "null", n |-> 0, a |-> <<>>, b |-> <<>>]>>

\* !x for a string or null
Absent(x) == x = Null \/ x = EmptyString

\* boolean | null as the client holds it
Tri(b) == IF b THEN "true" ELSE "false"

createMessageHash(message) == HexDigest(message)

signMessage(message, privateKey) ==
    [signature |-> RsaSign(message, privateKey), messageHash |-> createMessageHash(message)]

\* verify.verify(publicKey, signature, 'base64')
verifySignature(message, signature, publicKey) ==
    \E kp \in KeyPairs : kp.publicKey = publicKey /\ signature = RsaSign(message, kp.privateKey)

NoKeyPair == [publicKey |-> Null, privateKey |-> Null]

\* the key pairs generate-keys hands out
ClientKeys == {[publicKey |-> PublicKeyOf(k), privateKey |-> PrivateKeyOf(k)] : k \in 1..2}

----------------------------------------------------------------------------
(* SpecTutorial: SignatureTamperingTutorial.  A click on a button that     *)
(* awaits the server sets isLoading and leaves the request in pending; the *)
(* response, or the failure of the request, is a step of its own.          *)

\* the two default messages ("... transfer $100 to Alice." and "... $1000
\* ..."), here "100" and "1000"; the texts typed into the two text areas
DefaultOriginalMessage == Str(<<49, 48, 48>>)
DefaultTamperedMessage == Str(<<49, 48, 48, 48>>)
TutorialTexts == {DefaultOriginalMessage, DefaultTamperedMessage}

\* type TutorialStage, in the order of its declaration
TutorialStages ==
    <<"intro", "generate-keys", "sign-message", "verify-original", "tamper-message",
      "verify-tampered", "signature-tampering", "verify-tampered-signature",
      "conclusion">>

NoPending == [op |-> "none", message |-> EmptyString, signature |-> EmptyString,
              key |-> EmptyString]

Pending(op, message, signature, key) ==
    [op |-> op, message |-> message, signature |-> signature, key |-> key]

\* tamperChar(signature, position, 'X'): the character in the middle of the
\* signature becomes 'X', which it may have been before
tamperChar(signature, wasX) ==
    IF wasX THEN signature ELSE <<[signature[1] EXCEPT !.n = 1]>>

\* the buttons that call nextStage: the stage that renders the button, the
\* stage it names, and whether the button is rendered
NextStageButtons ==
    {[from |-> "intro", to |-> "generate-keys", shown |-> TRUE],
     [from |-> "verify-original", to |-> "tamper-message",
      shown |-> tutorial.originalVerified = "true"],
     [from |-> "verify-tampered", to |-> "signature-tampering", shown |-> TRUE],
     [from |-> "verify-tampered-signature", to |-> "conclusion",
      shown |-> tutorial.tamperedSignatureVerified # "null"],
     [from |-> "conclusion", to |-> "intro", shown |-> TRUE]}

\* onClick={() => nextStage(...)}
nextStage ==
    /\ \E button \in NextStageButtons :
          /\ tutorial.stage = button.from
          /\ button.shown
          /\ tutorial' = [tutorial EXCEPT !.stage = button.to]
    /\ UNCHANGED <<cur, job, sig, groups, signatures, resp, page>>

\* the text area of the sign-message stage
EditOriginalMessage(text) ==
    /\ tutorial.stage = "sign-message"
    /\ text # tutorial.originalMessage
    /\ tutorial' = [tutorial EXCEPT !.originalMessage = text]
    /\ UNCHANGED <<cur, job, sig, groups, signatures, resp, page>>

\* the text area of the tamper-message stage
EditTamperedMessage(text) ==
    /\ tutorial.stage = "tamper-message"
    /\ text # tutorial.tamperedMessage
    /\ tutorial' = [tutorial EXCEPT !.tamperedMessage = text]
    /\ UNCHANGED <<cur, job, sig, groups, signatures, resp, page>>

\* the click part of an async handler: setIsLoading(true) and the request
Await(request) ==
    /\ ~tutorial.isLoading
    /\ tutorial' = [tutorial EXCEPT !.isLoading = TRUE, !.pending = request]
    /\ UNCHANGED <<cur, job, sig, groups, signatures, resp, page>>

generateKeys ==
    /\ tutorial.stage = "generate-keys"
    /\ Await(Pending("generate-keys", EmptyString, EmptyString, EmptyString))

signMessageClick ==
    /\ tutorial.stage = "sign-message"
    /\ tutorial.keyPair # NoKeyPair
    /\ Await(Pending("sign", tutorial.originalMessage, EmptyString,
                     tutorial.keyPair.privateKey))

verifyOriginal ==
    /\ tutorial.stage = "verify-original"
    /\ tutorial.keyPair # NoKeyPair
    /\ ~Absent(tutorial.originalSignature)
    /\ Await(Pending("verify-original", tutorial.originalMessage,
                     tutorial.originalSignature, tutorial.keyPair.publicKey))

verifyTampered ==
    /\ tutorial.stage = "tamper-message"
    /\ tutorial.keyPair # NoKeyPair
    /\ ~Absent(tutorial.originalSignature)
    /\ Await(Pending("verify-tampered", tutorial.tamperedMessage,
                     tutorial.originalSignature, tutorial.keyPair.publicKey))

tamperSignature ==
    /\ tutorial.stage = "signature-tampering"
    /\ ~Absent(tutorial.originalSignature)
    /\ \E wasX \in BOOLEAN :
          tutorial' = [tutorial EXCEPT
                          !.tamperedSignature = tamperChar(tutorial.originalSignature, wasX),
                          !.stage = "verify-tampered-signature"]
    /\ UNCHANGED <<cur, job, sig, groups, signatures, resp, page>>

verifyTamperedSignature ==
    /\ tutorial.stage = "verify-tampered-signature"
    /\ tutorial.keyPair # NoKeyPair
    /\ ~Absent(tutorial.tamperedSignature)
    /\ Await(Pending("verify-tampered-signature", tutorial.originalMessage,
                     tutorial.tamperedSignature, tutorial.keyPair.publicKey))

\* the state after the response: setState(prev => ...) of the handler that
\* sent the request, then setIsLoading(false)
TutorialResponse(keyPair) ==
    /\ tutorial.pending.op # "none"
    /\ LET request == tutorial.pending
           valid == Tri(verifySignature(request.message, request.signature, request.key))
           data == signMessage(request.message, request.key)
           settled == [tutorial EXCEPT !.isLoading = FALSE, !.pending = NoPending]
       IN tutorial' =
             CASE request.op = "generate-keys" ->
                     [settled EXCEPT !.keyPair = keyPair, !.stage = "sign-message"]
               [] request.op = "sign" ->
                     [settled EXCEPT !.originalSignature = data.signature,
                                     !.messageHash = data.messageHash,
                                     !.stage = "verify-original"]
               [] request.op = "verify-original" ->
                     [settled EXCEPT !.originalVerified = valid,
                                     !.stage = "tamper-message"]
               [] request.op = "verify-tampered" ->
                     [settled EXCEPT !.tamperedVerified = valid,
                                     !.stage = "signature-tampering"]
               [] OTHER ->
                     [settled EXCEPT !.tamperedSignatureVerified = valid,
                                     !.stage = "conclusion"]
    /\ UNCHANGED <<cur, job, sig, groups, signatures, resp, page>>

\* the request failed: the catch block shows a toast, finally clears isLoading
TutorialRequestFailed ==
    /\ tutorial.pending.op # "none"
    /\ tutorial' = [tutorial EXCEPT !.isLoading = FALSE, !.pending = NoPending]
    /\ UNCHANGED <<cur, job, sig, groups, signatures, resp, page>>

InitTutorial ==
    /\ tutorial = [mounted |-> TRUE, stage |-> "intro",
                   originalMessage |-> DefaultOriginalMessage,
                   tamperedMessage |-> DefaultTamperedMessage,
                   originalSignature |-> EmptyString, tamperedSignature |-> EmptyString,
                   keyPair |-> NoKeyPair, messageHash |-> EmptyString,
                   originalVerified |-> "null", tamperedVerified |-> "null",
                   tamperedSignatureVerified |-> "null",
                   isLoading |-> FALSE, pending |-> NoPending]
    /\ page = [mounted |-> FALSE]
    /\ cur = NoCall
    /\ HarnessIdle
    /\ ServerIdle

NextTutorial ==
    \/ nextStage
    \/ \E text \in TutorialTexts : EditOriginalMessage(text)
    \/ \E text \in TutorialTexts : EditTamperedMessage(text)
    \/ generateKeys
    \/ signMessageClick
    \/ verifyOriginal
    \/ verifyTampered
    \/ tamperSignature
    \/ verifyTamperedSignature
    \/ \E keyPair \in ClientKeys : TutorialResponse(keyPair)
    \/ TutorialRequestFailed

SpecTutorial == InitTutorial /\ [][NextTutorial]_vars

\* the stage after a stage in the order of the walk, intro after conclusion
StageAfter(stage) ==
    LET i == CHOOSE j \in DOMAIN TutorialStages : TutorialStages[j] = stage
    IN TutorialStages[(i % Len(TutorialStages)) + 1]

\* C28: the tutorial walks its stages in the order intro, generate-keys,
\* sign-message, verify-original, tamper-message, verify-tampered,
\* signature-tampering, verify-tampered-signature, conclusion and then back
\* to intro: whenever the stage changes, the new stage is the one after the
\* old stage, so none is skipped.
C28_StagesInOrder ==
    [][tutorial'.stage # tutorial.stage =>
          tutorial'.stage = StageAfter(tutorial.stage)]_vars

\* what the code does instead: the stage verify-tampered is never shown
C28_VerifyTamperedNeverShown == tutorial.stage # "verify-tampered"

----------------------------------------------------------------------------
(* SpecPage: the basic-signatures page, CryptographyApp with its cards     *)
(* KeyGenerationCard, MessageInputCard, SigningCard and VerificationCard.  *)
(* A click that starts a mutation leaves its request in flight; the        *)
(* response, or the failure of the request, is a step of its own.          *)
(* page.verifiedMessage is history: the message the verification result    *)
(* now held was computed for.                                              *)

\* " (tampered)"
TamperedSuffix == Str(<<32, 40, 116, 97, 109, 112, 101, 114, 101, 100, 41>>)

\* the default message (here "s") and the other text typed, "a"
PageTexts == {Str(<<115>>), Str(<<97>>)}

\* the requests of the page that are in flight
InFlight ==
    (IF page.isGenerating THEN 1 ELSE 0) + (IF page.signing.pending THEN 1 ELSE 0)
    + Cardinality(page.verifying)

\* !message.trim()
IsBlank(message) == \A i \in DOMAIN message : message[i] = Ch(32)

NoSignatureData == [signature |-> Null, messageHash |-> Null]

NotSigning == [pending |-> FALSE, message |-> EmptyString, privateKey |-> Null,
               originalMessage |-> Null]

\* KeyGenerationCard.handleGenerateKeys
handleGenerateKeys ==
    /\ ~page.isGenerating
    /\ InFlight < MaxInFlight
    /\ page' = [page EXCEPT !.isGenerating = TRUE]
    /\ UNCHANGED <<cur, job, sig, groups, signatures, resp, tutorial>>

\* generateKeysMutation's onSuccess with the key pair received, or onError
GenerateKeysResponse(ok, keyPair) ==
    /\ page.isGenerating
    /\ page' = [page EXCEPT !.isGenerating = FALSE,
                            !.keyPair = IF ok THEN keyPair ELSE @]
    /\ UNCHANGED <<cur, job, sig, groups, signatures, resp, tutorial>>

\* CryptographyApp.handleMessageChange, called by the text area's onChange
handleMessageChange(newMessage) ==
    /\ newMessage # page.message
    /\ page' = IF page.signatureData # NoSignatureData
               THEN [page EXCEPT !.message = newMessage,
                                 !.originalMessage = IF Absent(@) THEN page.message ELSE @,
                                 !.verificationResult = "null",
                                 !.verifiedMessage = Null,
                                 !.tampered = TRUE]
               ELSE [page EXCEPT !.message = newMessage]
    /\ UNCHANGED <<cur, job, sig, groups, signatures, resp, tutorial>>

\* CryptographyApp.resetTamperedState run on state p, originalMessage being
\* the value its closure holds
resetTamperedState(p, originalMessage) ==
    IF ~Absent(originalMessage)
    THEN [p EXCEPT !.tampered = FALSE, !.message = originalMessage,
                   !.originalMessage = Null]
    ELSE [p EXCEPT !.tampered = FALSE]

\* SigningCard.handleSignMessage and the mutationFn it starts
handleSignMessage ==
    /\ ~page.isSigning
    /\ page.keyPair # NoKeyPair
    /\ ~IsBlank(page.message)
    /\ InFlight < MaxInFlight
    /\ page' = [page EXCEPT !.isSigning = TRUE,
                            !.signing = [pending |-> TRUE, message |-> page.message,
                                         privateKey |-> page.keyPair.privateKey,
                                         originalMessage |-> page.originalMessage]]
    /\ UNCHANGED <<cur, job, sig, groups, signatures, resp, tutorial>>

\* signMessageMutation's onSuccess or onError.  onSuccess calls the
\* resetTamperedState it holds: that of the render in which the mutation
\* was started or that of the latest render, depending on the library
SignResponse(ok, latest) ==
    /\ page.signing.pending
    /\ LET settled == [page EXCEPT !.isSigning = FALSE, !.signing = NotSigning]
           data == signMessage(page.signing.message, page.signing.privateKey)
       IN page' = IF ok
                  THEN resetTamperedState([settled EXCEPT !.signatureData = data],
                                          IF latest THEN page.originalMessage
                                          ELSE page.signing.originalMessage)
                  ELSE settled
    /\ UNCHANGED <<cur, job, sig, groups, signatures, resp, tutorial>>

\* verifySignatureMutation.mutate(messageToVerify): the request is in flight
Verifying(messageToVerify) ==
    /\ page.keyPair # NoKeyPair
    /\ page.signatureData # NoSignatureData
    /\ \E request \in {[message |-> messageToVerify,
                        signature |-> page.signatureData.signature,
                        publicKey |-> page.keyPair.publicKey]} :
          /\ InFlight < MaxInFlight
          /\ page' = [page EXCEPT !.isVerifying = TRUE,
                                  !.verifying = @ \cup {request}]
    /\ UNCHANGED <<cur, job, sig, groups, signatures, resp, tutorial>>

\* VerificationCard.handleVerifySignature
handleVerifySignature ==
    /\ ~page.showEditMessage
    /\ ~page.isVerifying
    /\ Verifying(IF page.activeTab = "edited" THEN page.editedMessage ELSE page.message)

\* VerificationCard.handleApplyEdits
handleApplyEdits ==
    /\ page.showEditMessage
    /\ page.activeTab = "edited"
    /\ page.editedMessage # page.message
    /\ Verifying(page.editedMessage)

\* verifySignatureMutation's onSuccess or onError
VerifyResponse(request, ok) ==
    /\ request \in page.verifying
    /\ LET settled == [page EXCEPT !.isVerifying = FALSE, !.verifying = @ \ {request}]
           valid == verifySignature(request.message, request.signature, request.publicKey)
       IN page' = IF ok
                  THEN [settled EXCEPT !.verificationResult = Tri(valid),
                                       !.verifiedMessage = request.message]
                  ELSE settled
    /\ UNCHANGED <<cur, job, sig, groups, signatures, resp, tutorial>>

\* the onTamperMessage CryptographyApp passes to VerificationCard, behind
\* the button Auto-Modify & Verify
onTamperMessage ==
    /\ page.verificationResult # "null"
    /\ ~page.showEditMessage
    /\ ~page.tampered
    /\ Len(page.message) + Len(TamperedSuffix) <= MaxMessageLength
    /\ page' = [page EXCEPT !.message = @ \o TamperedSuffix,
                            !.tampered = TRUE,
                            !.verificationResult = "null",
                            !.verifiedMessage = Null]
    /\ UNCHANGED <<cur, job, sig, groups, signatures, resp, tutorial>>

\* VerificationCard.handleEditMessage, behind Edit Message Manually
handleEditMessage ==
    /\ page.verificationResult # "null"
    /\ ~page.showEditMessage
    /\ page' = [page EXCEPT !.editedMessage = page.message,
                            !.showEditMessage = TRUE,
                            !.activeTab = "edited"]
    /\ UNCHANGED <<cur, job, sig, groups, signatures, resp, tutorial>>

\* the text area of the tab Edited Message
setEditedMessage(text) ==
    /\ page.showEditMessage
    /\ page.activeTab = "edited"
    /\ text # page.editedMessage
    /\ page' = [page EXCEPT !.editedMessage = text]
    /\ UNCHANGED <<cur, job, sig, groups, signatures, resp, tutorial>>

\* <Tabs onValueChange={setActiveTab}>
setActiveTab(tab) ==
    /\ page.showEditMessage
    /\ tab # page.activeTab
    /\ page' = [page EXCEPT !.activeTab = tab]
    /\ UNCHANGED <<cur, job, sig, groups, signatures, resp, tutorial>>

\* the button Back to Verification Result: setShowEditMessage(false)
setShowEditMessage ==
    /\ page.showEditMessage
    /\ page.verificationResult # "null"
    /\ page' = [page EXCEPT !.showEditMessage = FALSE]
    /\ UNCHANGED <<cur, job, sig, groups, signatures, resp, tutorial>>

InitPage ==
    /\ page = [mounted |-> TRUE, keyPair |-> NoKeyPair, message |-> Str(<<115>>),
               signatureData |-> NoSignatureData, verificationResult |-> "null",
               tampered |-> FALSE, originalMessage |-> Null,
               isGenerating |-> FALSE, isSigning |-> FALSE, isVerifying |-> FALSE,
               editedMessage |-> EmptyString, showEditMessage |-> FALSE,
               activeTab |-> "message", signing |-> NotSigning, verifying |-> {},
               verifiedMessage |-> Null]
    /\ tutorial = [mounted |-> FALSE]
    /\ cur = NoCall
    /\ HarnessIdle
    /\ ServerIdle

NextPage ==
    \/ handleGenerateKeys
    \/ \E ok \in BOOLEAN, keyPair \in ClientKeys : GenerateKeysResponse(ok, keyPair)
    \/ \E newMessage \in PageTexts : handleMessageChange(newMessage)
    \/ handleSignMessage
    \/ \E ok \in BOOLEAN, latest \in BOOLEAN : SignResponse(ok, latest)
    \/ handleVerifySignature
    \/ handleApplyEdits
    \/ \E request \in page.verifying, ok \in BOOLEAN : VerifyResponse(request, ok)
    \/ onTamperMessage
    \/ handleEditMessage
    \/ \E text \in PageTexts : setEditedMessage(text)
    \/ \E tab \in {"message", "edited"} : setActiveTab(tab)
    \/ setShowEditMessage

SpecPage == InitPage /\ [][NextPage]_vars

\* C29: on the basic-signature page, whenever a signature is present and
\* the tampered flag is false, the message shown (and sent to verification)
\* is the message the signature was created for, after any sequence of
\* edits, auto-tamper clicks and (re-)signings.
C29_UntamperedMessageIsSigned ==
    (page.signatureData # NoSignatureData /\ ~page.tampered) =>
        \E kp \in ClientKeys :
            page.signatureData = signMessage(page.message, kp.privateKey)

\* C30: changing the message after a signature exists clears the
\* verification result and sets the tampered flag, so a verification result
\* is never displayed for a message other than the one verified.
C30_ResultIsForShownMessage ==
    (page.verificationResult # "null" /\ ~page.showEditMessage) =>
        page.verifiedMessage = page.message

============================================================================
